---- MODULE Spec2Model ----
(***************************************************************************)
(* Full-block download engine of crates/net/p2p/src/full_block.rs:         *)
(* FetchFullBlockFuture (one block by hash) and FetchFullBlockRangeFuture   *)
(* (count blocks, falling from a start hash), driven by replies of an       *)
(* untrusted PeerClient.  One action is one iteration of the `loop` in the  *)
(* future's poll: a sub-request becomes ready, its result is handled, the   *)
(* slot is re-requested if needed, and take_block(s) is attempted.          *)
(***************************************************************************)
EXTENDS Integers, Sequences, FiniteSets, TLC

(***************************************************************************)
(* Bounds                                                                  *)
(***************************************************************************)
NumPeers == 2          \* peer ids 1..NumPeers
MaxCount == 2          \* largest `count` of a range request
MaxFaults == 2         \* faulty replies before the peers behave (liveness)

Peers == 1..NumPeers
\* the body roots a header can commit to: a body matches a header or it does not
Roots == {0, 1}
ChainLen == MaxCount + 1

(***************************************************************************)
(* Option<T> as a sequence of length <= 1                                  *)
(***************************************************************************)
None == <<>>
Some(x) == <<x>>
IsSome(o) == Len(o) = 1
IsNone(o) == Len(o) = 0
Unwrap(o) == o[1]

Reverse(s) == [i \in 1..Len(s) |-> s[Len(s) + 1 - i]]

Range(s) == {s[i] : i \in 1..Len(s)}

(***************************************************************************)
(* Headers, hashes, bodies                                                 *)
(***************************************************************************)
\* Sealable::hash_slow: the digest of the header's contents.  The digest is
\* collision free on the modelled headers (mixed radix over the fields).
HashOf(h) == 1 + h.root + Cardinality(Roots) * (h.number + (ChainLen + 1) * h.parent_hash)

\* Sealable::seal_slow: the header together with its computed hash
seal_slow(h) == [header |-> h, seal |-> HashOf(h)]

RECURSIVE Chain(_)
\* the canonical chain the honest peers serve: block i has parent Chain(i-1)
Chain(i) ==
    IF i = 0 THEN [number |-> 0, parent_hash |-> 0, root |-> 0]
    ELSE [number |-> i, parent_hash |-> HashOf(Chain(i - 1)), root |-> i % Cardinality(Roots)]

Tip == Chain(ChainLen - 1)

\* a header a dishonest peer may forge: same number and parent, other contents
WrongRoot(h) == [h EXCEPT !.root = (h.root + 1) % Cardinality(Roots)]

\* the headers the peers send: the chain and a forged tip
Headers == {Chain(i) : i \in 0..(ChainLen - 1)} \cup {WrongRoot(Tip)}

\* a body; `src` is a ghost field (never read by the fetchers): the peer
\* whose reply delivered the body
Bodies == [root : Roots, src : Peers]

\* NetworkTypes::validate_block: the body matches the root the header commits to
validate_block(header, body) == body.root = header.header.root

\* Consensus::validate_header_range over a rising sequence: every child
\* links to its parent by hash and number
validate_header_range(rising) ==
    \A i \in 1..(Len(rising) - 1) :
        /\ rising[i + 1].header.parent_hash = rising[i].seal
        /\ rising[i + 1].header.number = rising[i].header.number + 1

\* Block::build_sealed
build_sealed_block(header, body) == [header |-> header, body |-> body]

(***************************************************************************)
(* PeerClient: calls made on the client, results it yields                 *)
(***************************************************************************)
GetHeader(hash) == [op |-> "get_header", hash |-> hash]
GetBlockBody(hash) == [op |-> "get_block_body", hash |-> hash]
GetHeaders(start, limit) ==
    [op |-> "get_headers", start |-> start, limit |-> limit, direction |-> "Falling"]
GetBlockBodies(hashes) == [op |-> "get_block_bodies", hashes |-> hashes]
ReportBadMessage(peer) == [op |-> "report_bad_message", peer |-> peer]

\* PeerRequestResult<T> = Result<WithPeerId<T>, RequestError>
Err == [ok |-> FALSE]
Ok(peer, data) == [ok |-> TRUE, peer |-> peer, data |-> data]

\* WithPeerId<T>
WithPeerId(peer, data) == [peer |-> peer, data |-> data]

\* BodyResponse<B>
Validated(body) == [tag |-> "Validated", body |-> body]
PendingValidation(resp) == [tag |-> "PendingValidation", resp |-> resp]

VARIABLES
    fut,       \* FetchFullBlockFuture; fut.client is the log of the calls of the last step
    rfut,      \* FetchFullBlockRangeFuture; rfut.client likewise
    out,       \* Poll::Ready output of the polled future, None while pending
    last,      \* the ResponseResult handled by the last step
    faults     \* faulty replies the peers may still give (liveness specifications)

vars == <<fut, rfut, out, last, faults>>

\* the client handle records the call
call(f, c) == [f EXCEPT !.client = Append(@, c)]

(***************************************************************************)
(* FetchFullBlockFuture                                                    *)
(***************************************************************************)
\* FullBlockClient::get_full_block
get_full_block(hash) ==
    [ hash |-> hash,
      request |-> [header |-> Some(GetHeader(hash)), body |-> Some(GetBlockBody(hash))],
      client |-> <<GetHeader(hash), GetBlockBody(hash)>>,
      header |-> None,
      body |-> None ]

\* take_block that builds the block from a pending body without validating it
take_block_unvalidated(f) ==
    IF IsNone(f.header) \/ IsNone(f.body)
    THEN [fut |-> f, ret |-> None]
    ELSE LET header == Unwrap(f.header)
             resp == Unwrap(f.body)
             taken == [f EXCEPT !.header = None, !.body = None]
             body == IF resp.tag = "Validated" THEN resp.body ELSE resp.resp.data
         IN  [fut |-> taken, ret |-> Some(build_sealed_block(header, body))]

\* take_block that retries a rejected pending body without reporting its peer
take_block_unreported(f) ==
    IF IsNone(f.header) \/ IsNone(f.body)
    THEN [fut |-> f, ret |-> None]
    ELSE LET header == Unwrap(f.header)
             resp == Unwrap(f.body)
             taken == [f EXCEPT !.header = None, !.body = None]
         IN  IF resp.tag = "Validated"
             THEN [fut |-> taken, ret |-> Some(build_sealed_block(header, resp.body))]
             ELSE IF ~validate_block(header, resp.resp.data)
                  THEN LET restored == [taken EXCEPT !.header = Some(header)]
                           retried == [call(restored, GetBlockBody(f.hash))
                                          EXCEPT !.request.body = Some(GetBlockBody(f.hash))]
                       IN  [fut |-> retried, ret |-> None]
                  ELSE [fut |-> taken,
                        ret |-> Some(build_sealed_block(header, resp.resp.data))]

\* take_block that does not put the header back when the body is rejected
take_block_drops_header(f) ==
    IF IsNone(f.header) \/ IsNone(f.body)
    THEN [fut |-> f, ret |-> None]
    ELSE LET header == Unwrap(f.header)
             resp == Unwrap(f.body)
             taken == [f EXCEPT !.header = None, !.body = None]
         IN  IF resp.tag = "Validated"
             THEN [fut |-> taken, ret |-> Some(build_sealed_block(header, resp.body))]
             ELSE IF ~validate_block(header, resp.resp.data)
                  THEN LET reported == call(taken, ReportBadMessage(resp.resp.peer))
                           retried == [call(reported, GetBlockBody(f.hash))
                                          EXCEPT !.request.body = Some(GetBlockBody(f.hash))]
                       IN  [fut |-> retried, ret |-> None]
                  ELSE [fut |-> taken,
                        ret |-> Some(build_sealed_block(header, resp.resp.data))]

\* FetchFullBlockFuture::take_block
take_block(f) ==
    IF IsNone(f.header) \/ IsNone(f.body)
    THEN [fut |-> f, ret |-> None]
    ELSE LET header == Unwrap(f.header)
             resp == Unwrap(f.body)
             taken == [f EXCEPT !.header = None, !.body = None]
         IN  IF resp.tag = "Validated"
             THEN [fut |-> taken, ret |-> Some(build_sealed_block(header, resp.body))]
             ELSE IF ~validate_block(header, resp.resp.data)
                  THEN LET reported == call(taken, ReportBadMessage(resp.resp.peer))
                           restored == [reported EXCEPT !.header = Some(header)]
                           retried == [call(restored, GetBlockBody(f.hash))
                                          EXCEPT !.request.body = Some(GetBlockBody(f.hash))]
                       IN  [fut |-> retried, ret |-> None]
                  ELSE [fut |-> taken,
                        ret |-> Some(build_sealed_block(header, resp.resp.data))]

\* on_block_response that discards a body arriving before the header
on_block_response_drops_early_body(f, resp) ==
    IF IsSome(f.header)
    THEN IF ~validate_block(Unwrap(f.header), resp.data)
         THEN call(f, ReportBadMessage(resp.peer))
         ELSE [f EXCEPT !.body = Some(Validated(resp.data))]
    ELSE f

\* FetchFullBlockFuture::on_block_response
on_block_response(f, resp) ==
    IF IsSome(f.header)
    THEN IF ~validate_block(Unwrap(f.header), resp.data)
         THEN call(f, ReportBadMessage(resp.peer))
         ELSE [f EXCEPT !.body = Some(Validated(resp.data))]
    ELSE [f EXCEPT !.body = Some(PendingValidation(resp))]

\* on_header_result without the comparison of the seal with the requested hash
on_header_result_unchecked(f, res) ==
    LET handled ==
            IF res.ok /\ IsSome(res.data)
            THEN [f EXCEPT !.header = Some(seal_slow(Unwrap(res.data)))]
            ELSE f
    IN  IF IsNone(handled.header)
        THEN [call(handled, GetHeader(f.hash))
                 EXCEPT !.request.header = Some(GetHeader(f.hash))]
        ELSE handled

\* on_header_result that does not request the header again
on_header_result_no_retry(f, res) ==
    IF res.ok /\ IsSome(res.data)
    THEN LET header == seal_slow(Unwrap(res.data))
         IN  IF header.seal # f.hash
             THEN call(f, ReportBadMessage(res.peer))
             ELSE [f EXCEPT !.header = Some(header)]
    ELSE f

\* on_header_result that treats an empty payload as misbehaviour of the peer
on_header_result_reports_empty(f, res) ==
    LET handled ==
            IF res.ok
            THEN IF IsNone(res.data)
                 THEN call(f, ReportBadMessage(res.peer))
                 ELSE LET header == seal_slow(Unwrap(res.data))
                      IN  IF header.seal # f.hash
                          THEN call(f, ReportBadMessage(res.peer))
                          ELSE [f EXCEPT !.header = Some(header)]
            ELSE f
    IN  IF IsNone(handled.header)
        THEN [call(handled, GetHeader(f.hash))
                 EXCEPT !.request.header = Some(GetHeader(f.hash))]
        ELSE handled

\* FetchFullBlockFuture::poll, the ResponseResult::Header arm
on_header_result(f, res) ==
    LET handled ==
            IF res.ok /\ IsSome(res.data)
            THEN LET header == seal_slow(Unwrap(res.data))
                 IN  IF header.seal # f.hash
                     THEN call(f, ReportBadMessage(res.peer))
                     ELSE [f EXCEPT !.header = Some(header)]
            ELSE f
    IN  IF IsNone(handled.header)
        THEN [call(handled, GetHeader(f.hash))
                 EXCEPT !.request.header = Some(GetHeader(f.hash))]
        ELSE handled

\* on_body_result that requests the body again whatever the body slot holds
on_body_result_always_retries(f, res) ==
    LET handled ==
            IF res.ok /\ IsSome(res.data)
            THEN on_block_response(f, WithPeerId(res.peer, Unwrap(res.data)))
            ELSE f
    IN  [call(handled, GetBlockBody(f.hash))
            EXCEPT !.request.body = Some(GetBlockBody(f.hash))]

\* on_body_result that does not request the body again
on_body_result_no_retry(f, res) ==
    IF res.ok /\ IsSome(res.data)
    THEN on_block_response(f, WithPeerId(res.peer, Unwrap(res.data)))
    ELSE f

\* FetchFullBlockFuture::poll, the ResponseResult::Body arm
on_body_result(f, res) ==
    LET handled ==
            IF res.ok /\ IsSome(res.data)
            THEN on_block_response(f, WithPeerId(res.peer, Unwrap(res.data)))
            ELSE f
    IN  IF IsNone(handled.body)
        THEN [call(handled, GetBlockBody(f.hash))
                 EXCEPT !.request.body = Some(GetBlockBody(f.hash))]
        ELSE handled

\* results the header sub-request can yield
HeaderResults ==
    {Err} \cup {Ok(p, None) : p \in Peers} \cup {Ok(p, Some(h)) : p \in Peers, h \in Headers}

\* results the body sub-request can yield
BodyResults ==
    {Err} \cup {Ok(p, None) : p \in Peers}
          \cup {Ok(p, Some([root |-> r, src |-> p])) : p \in Peers, r \in Roots}

\* the header with the given hash, as the honest peers know it
HeaderByHash(hash) == CHOOSE h \in Headers : HashOf(h) = hash

\* the replies of an honest peer holding the chain
GoodHeaderResults(f) == {Ok(p, Some(HeaderByHash(f.hash))) : p \in Peers}
GoodBodyResults(f) ==
    {Ok(p, Some([root |-> HeaderByHash(f.hash).root, src |-> p])) : p \in Peers}

\* FullBlockRequest::poll yields the header result; one iteration of the loop
PollHeader(res) ==
    /\ IsNone(out)
    /\ IsSome(fut.request.header)
    /\ \E handled \in {on_header_result(
                            [fut EXCEPT !.request.header = None, !.client = <<>>], res)} :
          \E t \in {take_block(handled)} :
              /\ fut' = t.fut
              /\ out' = t.ret
    /\ UNCHANGED rfut

\* FullBlockRequest::poll yields the body result; one iteration of the loop
PollBody(res) ==
    /\ IsNone(out)
    /\ IsSome(fut.request.body)
    /\ \E handled \in {on_body_result(
                            [fut EXCEPT !.request.body = None, !.client = <<>>], res)} :
          \E t \in {take_block(handled)} :
              /\ fut' = t.fut
              /\ out' = t.ret
    /\ UNCHANGED rfut

\* drop that leaves the sub-requests running, as if they were detached tasks
drop_future_detached(f) == [f EXCEPT !.client = <<>>]

\* the caller drops the FetchFullBlockFuture: the struct owns its
\* FullBlockRequest, which owns the two sub-request futures, so they are
\* dropped with it; there is no Drop impl, so no call is made
drop_future(f) == [f EXCEPT !.request = [header |-> None, body |-> None], !.client = <<>>]

(***************************************************************************)
(* FetchFullBlockRangeFuture                                               *)
(***************************************************************************)
\* FullBlockClient::get_full_block_range
get_full_block_range(hash, count) ==
    [ start_hash |-> hash,
      count |-> count,
      request |-> [headers |-> Some(GetHeaders(hash, count)), bodies |-> None],
      client |-> <<GetHeaders(hash, count)>>,
      headers |-> None,
      pending_headers |-> <<>>,
      bodies |-> <<>> ]

\* HashMap::insert
MapInsert(m, k, v) == [x \in (DOMAIN m) \cup {k} |-> IF x = k THEN v ELSE m[x]]

\* HashMap::remove
MapRemove(m, k) == [x \in (DOMAIN m) \ {k} |-> m[x]]

\* FetchFullBlockRangeFuture::is_bodies_complete
is_bodies_complete(f) == Cardinality(DOMAIN f.bodies) = f.count

\* insert_body that stores a body for which no header is pending under the
\* last accepted header
insert_body_surplus_overwrites(f, body_response) ==
    IF f.pending_headers # <<>>
    THEN [f EXCEPT !.pending_headers = Tail(@),
                   !.bodies = MapInsert(@, Head(f.pending_headers), body_response)]
    ELSE IF IsSome(f.headers)
         THEN [f EXCEPT !.bodies = MapInsert(@, Unwrap(f.headers)[Len(Unwrap(f.headers))],
                                             body_response)]
         ELSE f

\* insert_body that leaves the paired header among the pending headers
insert_body_keeps_pending(f, body_response) ==
    IF f.pending_headers # <<>>
    THEN [f EXCEPT !.bodies = MapInsert(@, Head(f.pending_headers), body_response)]
    ELSE f

\* insert_body that pairs the body with the last pending header
insert_body_from_back(f, body_response) ==
    IF f.pending_headers # <<>>
    THEN [f EXCEPT !.pending_headers = SubSeq(@, 1, Len(@) - 1),
                   !.bodies = MapInsert(@, f.pending_headers[Len(f.pending_headers)],
                                        body_response)]
    ELSE f

\* FetchFullBlockRangeFuture::insert_body
insert_body(f, body_response) ==
    IF f.pending_headers # <<>>
    THEN [f EXCEPT !.pending_headers = Tail(@),
                   !.bodies = MapInsert(@, Head(f.pending_headers), body_response)]
    ELSE f

RECURSIVE insert_bodies(_, _)
\* FetchFullBlockRangeFuture::insert_bodies
insert_bodies(f, bodies) ==
    IF bodies = <<>> THEN f
    ELSE insert_bodies(insert_body(f, Head(bodies)), Tail(bodies))

\* remaining_bodies_hashes that lists the hashes from the back of the queue
remaining_bodies_hashes_rising(f) ==
    Reverse([i \in 1..Len(f.pending_headers) |-> f.pending_headers[i].seal])

\* FetchFullBlockRangeFuture::remaining_bodies_hashes
remaining_bodies_hashes(f) == [i \in 1..Len(f.pending_headers) |-> f.pending_headers[i].seal]

\* FetchFullBlockRangeFuture::has_bodies_request_started
has_bodies_request_started(f) == IsSome(f.request.bodies)

\* request_bodies that keeps the request it replaces outstanding
request_bodies_keeps_old(f, hashes) ==
    [call(f, GetBlockBodies(hashes)) EXCEPT !.request.bodies = Append(@, GetBlockBodies(hashes))]

\* issue a bodies request: self.request.bodies = Some(self.client.get_block_bodies(hashes))
request_bodies(f, hashes) ==
    [call(f, GetBlockBodies(hashes)) EXCEPT !.request.bodies = Some(GetBlockBodies(hashes))]

RECURSIVE take_blocks_loop(_, _)
\* the `for header in &headers` loop of take_blocks; acc carries the future,
\* needs_retry and valid_responses
take_blocks_loop(acc, headers) ==
    IF headers = <<>> THEN acc
    ELSE LET header == Head(headers)
             f == acc.fut
         IN  IF header \in DOMAIN f.bodies
             THEN LET body_resp == f.bodies[header]
                      removed == [f EXCEPT !.bodies = MapRemove(@, header)]
                  IN  IF body_resp.tag = "PendingValidation"
                            /\ ~validate_block(header, body_resp.resp.data)
                      THEN take_blocks_loop(
                              [acc EXCEPT
                                  !.fut = [call(removed, ReportBadMessage(body_resp.resp.peer))
                                              EXCEPT !.pending_headers = Append(@, header)],
                                  !.needs_retry = TRUE],
                              Tail(headers))
                      ELSE LET body == IF body_resp.tag = "Validated"
                                       THEN body_resp.body
                                       ELSE body_resp.resp.data
                           IN  take_blocks_loop(
                                  [acc EXCEPT
                                      !.fut = removed,
                                      !.valid_responses =
                                          Append(@, build_sealed_block(header, body))],
                                  Tail(headers))
             ELSE take_blocks_loop(acc, Tail(headers))

RECURSIVE reinsert_valid(_, _)
\* take_blocks: put the validated blocks back into the bodies map
reinsert_valid(f, blocks) ==
    IF blocks = <<>> THEN f
    ELSE reinsert_valid(
            [f EXCEPT !.bodies = MapInsert(@, Head(blocks).header, Validated(Head(blocks).body))],
            Tail(blocks))

\* take_blocks that does not put the taken headers back before the retry
take_blocks_loses_headers(f) ==
    IF ~is_bodies_complete(f) \/ IsNone(f.headers)
    THEN [fut |-> f, ret |-> None]
    ELSE LET headers == Unwrap(f.headers)
             acc == take_blocks_loop(
                        [fut |-> [f EXCEPT !.headers = None],
                         needs_retry |-> FALSE,
                         valid_responses |-> <<>>],
                        headers)
         IN  IF acc.needs_retry
             THEN LET put_back == reinsert_valid(acc.fut, acc.valid_responses)
                  IN  [fut |-> request_bodies(put_back, remaining_bodies_hashes(put_back)),
                       ret |-> None]
             ELSE [fut |-> acc.fut, ret |-> Some(acc.valid_responses)]

\* take_blocks that does not put the validated blocks back before the retry
take_blocks_discards_valid(f) ==
    IF ~is_bodies_complete(f) \/ IsNone(f.headers)
    THEN [fut |-> f, ret |-> None]
    ELSE LET headers == Unwrap(f.headers)
             acc == take_blocks_loop(
                        [fut |-> [f EXCEPT !.headers = None],
                         needs_retry |-> FALSE,
                         valid_responses |-> <<>>],
                        headers)
         IN  IF acc.needs_retry
             THEN LET put_back == [acc.fut EXCEPT !.headers = Some(headers)]
                  IN  [fut |-> request_bodies(put_back, remaining_bodies_hashes(put_back)),
                       ret |-> None]
             ELSE [fut |-> acc.fut, ret |-> Some(acc.valid_responses)]

\* FetchFullBlockRangeFuture::take_blocks
take_blocks(f) ==
    IF ~is_bodies_complete(f) \/ IsNone(f.headers)
    THEN [fut |-> f, ret |-> None]
    ELSE LET headers == Unwrap(f.headers)
             acc == take_blocks_loop(
                        [fut |-> [f EXCEPT !.headers = None],
                         needs_retry |-> FALSE,
                         valid_responses |-> <<>>],
                        headers)
         IN  IF acc.needs_retry
             THEN LET put_back == [reinsert_valid(acc.fut, acc.valid_responses)
                                      EXCEPT !.headers = Some(headers)]
                  IN  [fut |-> request_bodies(put_back, remaining_bodies_hashes(put_back)),
                       ret |-> None]
             ELSE [fut |-> acc.fut, ret |-> Some(acc.valid_responses)]

\* the sequence s without its i-th element
RemoveAt(s, i) == [j \in 1..(Len(s) - 1) |-> IF j < i THEN s[j] ELSE s[j + 1]]

\* no sort: the headers are taken in the order of the reply
no_sort(hs) == {hs}

RECURSIVE SortUnstableFalling(_)
\* the outcomes of sort_unstable_by_key(|h| Reverse(h.number())): the
\* headers in falling block-number order; the order of equal numbers is
\* unspecified, so every order of them is an outcome
SortUnstableFalling(hs) ==
    IF hs = <<>> THEN {<<>>}
    ELSE LET highest == {i \in 1..Len(hs) :
                            \A j \in 1..Len(hs) : hs[j].header.number <= hs[i].header.number}
         IN  UNION {{<<hs[i]>> \o rest : rest \in SortUnstableFalling(RemoveAt(hs, i))} :
                        i \in highest}

\* on_headers_response without the check of the starting hash
on_headers_response_any_start(f, peer, headers_falling) ==
    IF Len(headers_falling) = f.count
    THEN IF ~validate_header_range(Reverse(headers_falling))
         THEN call(f, ReportBadMessage(peer))
         ELSE LET hashes == [i \in 1..Len(headers_falling) |-> headers_falling[i].seal]
                  pending == [f EXCEPT !.pending_headers = headers_falling]
                  started == IF ~has_bodies_request_started(pending)
                             THEN request_bodies(pending, hashes)
                             ELSE pending
              IN  [started EXCEPT !.headers = Some(headers_falling)]
    ELSE f

\* on_headers_response without the call of validate_header_range
on_headers_response_unvalidated(f, peer, headers_falling) ==
    IF Len(headers_falling) = f.count
    THEN IF headers_falling[1].seal # f.start_hash
         THEN call(f, ReportBadMessage(peer))
         ELSE LET hashes == [i \in 1..Len(headers_falling) |-> headers_falling[i].seal]
                  pending == [f EXCEPT !.pending_headers = headers_falling]
                  started == IF ~has_bodies_request_started(pending)
                             THEN request_bodies(pending, hashes)
                             ELSE pending
              IN  [started EXCEPT !.headers = Some(headers_falling)]
    ELSE f

\* on_headers_response that requests the bodies in rising order
on_headers_response_rising_hashes(f, peer, headers_falling) ==
    IF Len(headers_falling) = f.count
    THEN IF headers_falling[1].seal # f.start_hash
         THEN call(f, ReportBadMessage(peer))
         ELSE IF ~validate_header_range(Reverse(headers_falling))
              THEN call(f, ReportBadMessage(peer))
              ELSE LET hashes == Reverse([i \in 1..Len(headers_falling) |->
                                             headers_falling[i].seal])
                       pending == [f EXCEPT !.pending_headers = headers_falling]
                       started == IF ~has_bodies_request_started(pending)
                                  THEN request_bodies(pending, hashes)
                                  ELSE pending
                   IN  [started EXCEPT !.headers = Some(headers_falling)]
    ELSE f

\* on_headers_response that populates the pending headers before the
\* headers are validated
on_headers_response_early_pending(f, peer, headers_falling) ==
    IF Len(headers_falling) = f.count
    THEN IF headers_falling[1].seal # f.start_hash
         THEN call(f, ReportBadMessage(peer))
         ELSE LET pending == [f EXCEPT !.pending_headers = headers_falling]
              IN  IF ~validate_header_range(Reverse(headers_falling))
                  THEN call(pending, ReportBadMessage(peer))
                  ELSE LET hashes == [i \in 1..Len(headers_falling) |->
                                         headers_falling[i].seal]
                           started == IF ~has_bodies_request_started(pending)
                                      THEN request_bodies(pending, hashes)
                                      ELSE pending
                       IN  [started EXCEPT !.headers = Some(headers_falling)]
    ELSE f

\* FetchFullBlockRangeFuture::on_headers_response; headers_falling is the
\* outcome of the sort
on_headers_response(f, peer, headers_falling) ==
    IF Len(headers_falling) = f.count
    THEN IF headers_falling[1].seal # f.start_hash
         THEN call(f, ReportBadMessage(peer))
         ELSE IF ~validate_header_range(Reverse(headers_falling))
              THEN call(f, ReportBadMessage(peer))
              ELSE LET hashes == [i \in 1..Len(headers_falling) |-> headers_falling[i].seal]
                       pending == [f EXCEPT !.pending_headers = headers_falling]
                       started == IF ~has_bodies_request_started(pending)
                                  THEN request_bodies(pending, hashes)
                                  ELSE pending
                   IN  [started EXCEPT !.headers = Some(headers_falling)]
    ELSE f

\* on_range_header_result that does not request the headers again
on_range_header_result_no_retry(f, res, headers_falling) ==
    IF res.ok THEN on_headers_response(f, res.peer, headers_falling) ELSE f

\* FetchFullBlockRangeFuture::poll, the RangeResponseResult::Header arm
on_range_header_result(f, res, headers_falling) ==
    LET handled == IF res.ok THEN on_headers_response(f, res.peer, headers_falling) ELSE f
    IN  IF IsNone(handled.headers)
        THEN [call(handled, GetHeaders(f.start_hash, f.count))
                 EXCEPT !.request.headers = Some(GetHeaders(f.start_hash, f.count))]
        ELSE handled

\* bodies_resp.split() and the wrapping of every body as PendingValidation
wrap_pending(peer, body) == PendingValidation(WithPeerId(peer, body))

\* on_bodies_response that keeps one peer id for all bodies awaiting
\* validation: the peer of the latest reply
on_bodies_response_latest_peer(f, peer, new_bodies) ==
    LET inserted == insert_bodies(f,
                        [i \in 1..Len(new_bodies) |-> wrap_pending(peer, new_bodies[i])])
        retagged == [inserted EXCEPT !.bodies =
                        [h \in DOMAIN @ |->
                            IF @[h].tag = "PendingValidation"
                            THEN wrap_pending(peer, @[h].resp.data)
                            ELSE @[h]]]
    IN  IF ~is_bodies_complete(retagged)
        THEN request_bodies(retagged, remaining_bodies_hashes(retagged))
        ELSE retagged

\* on_bodies_response that requests the bodies of all accepted headers again
on_bodies_response_requests_all(f, peer, new_bodies) ==
    LET inserted == insert_bodies(f,
                        [i \in 1..Len(new_bodies) |-> wrap_pending(peer, new_bodies[i])])
    IN  IF ~is_bodies_complete(inserted)
        THEN request_bodies(inserted,
                 [i \in 1..Len(Unwrap(f.headers)) |-> Unwrap(f.headers)[i].seal])
        ELSE inserted

\* FetchFullBlockRangeFuture::poll, the Ok arm of RangeResponseResult::Body
on_bodies_response(f, peer, new_bodies) ==
    LET inserted == insert_bodies(f,
                        [i \in 1..Len(new_bodies) |-> wrap_pending(peer, new_bodies[i])])
    IN  IF ~is_bodies_complete(inserted)
        THEN request_bodies(inserted, remaining_bodies_hashes(inserted))
        ELSE inserted

\* on_range_body_result that starts over with the header-range request when
\* the bodies map is empty
on_range_body_result_restarts_headers(f, res) ==
    LET handled == IF res.ok THEN on_bodies_response(f, res.peer, res.data) ELSE f
    IN  IF DOMAIN handled.bodies = {}
        THEN [call(handled, GetHeaders(f.start_hash, f.count))
                 EXCEPT !.request.headers = Some(GetHeaders(f.start_hash, f.count)),
                        !.request.bodies = None,
                        !.headers = None,
                        !.pending_headers = <<>>]
        ELSE handled

\* FetchFullBlockRangeFuture::poll, the RangeResponseResult::Body arm
on_range_body_result(f, res) ==
    LET handled == IF res.ok THEN on_bodies_response(f, res.peer, res.data) ELSE f
    IN  IF DOMAIN handled.bodies = {}
        THEN LET hashes == remaining_bodies_hashes(handled)
             IN  IF hashes # <<>> THEN request_bodies(handled, hashes) ELSE handled
        ELSE handled

\* all sequences over S of length at most n
RECURSIVE SeqsUpTo(_, _)
SeqsUpTo(S, n) ==
    IF n = 0 THEN {<<>>}
    ELSE LET shorter == SeqsUpTo(S, n - 1)
         IN  shorter \cup {Append(s, x) : s \in {t \in shorter : Len(t) = n - 1}, x \in S}

MaxReplyLen == MaxCount + 1

\* results the header-range sub-request can yield: any list of different
\* headers, also truncated, oversized, unordered or forged
RangeHeaderResults ==
    {Err} \cup {Ok(p, hs) : p \in Peers,
                            hs \in {l \in SeqsUpTo(Headers, MaxReplyLen) :
                                       Cardinality(Range(l)) = Len(l)}}

\* results the body-range sub-request can yield
RangeBodyResults ==
    {Err} \cup {Ok(p, [i \in 1..Len(rs) |-> [root |-> rs[i], src |-> p]]) :
                    p \in Peers, rs \in SeqsUpTo(Roots, MaxReplyLen)}

\* the replies of an honest peer holding the chain: the requested headers
\* in falling order, the bodies of the requested hashes in their order
GoodRangeHeaderResults(f) ==
    {Ok(p, [i \in 1..f.count |-> Chain(ChainLen - i)]) : p \in Peers}
GoodRangeBodyResults(f) ==
    LET hashes == Unwrap(f.request.bodies).hashes
    IN  {Ok(p, [i \in 1..Len(hashes) |-> [root |-> HeaderByHash(hashes[i]).root, src |-> p]]) :
            p \in Peers}

\* what is recorded of a header-range result: its peer and length, whether the
\* header that sorts first has the start hash, whether its headers link up,
\* whether it is the requested slice of the chain (in any order), and whether
\* it came in the order the sort gives
Observed(f, res, headers_falling) ==
    IF res.ok
    THEN [ok |-> TRUE, peer |-> res.peer, len |-> Len(res.data),
          in_order |-> headers_falling = [i \in 1..Len(res.data) |-> seal_slow(res.data[i])],
          starts |-> headers_falling # <<>> /\ headers_falling[1].seal = f.start_hash,
          linked |-> validate_header_range(Reverse(headers_falling)),
          honest |-> /\ Len(res.data) = f.count
                     /\ Range(res.data) = {Chain(ChainLen - i) : i \in 1..f.count}]
    ELSE Err

\* FullBlockRangeRequest::poll yields the headers result; one iteration of the loop
PollRangeHeaders(res, headers_falling) ==
    /\ IsNone(out)
    /\ IsSome(rfut.request.headers)
    /\ \E handled \in {on_range_header_result(
                            [rfut EXCEPT !.request.headers = None, !.client = <<>>],
                            res, headers_falling)} :
          \E t \in {take_blocks(handled)} :
              /\ rfut' = t.fut
              /\ out' = t.ret
    /\ UNCHANGED fut

\* FullBlockRangeRequest::poll yields the bodies result; one iteration of the loop
PollRangeBodies(res) ==
    /\ IsNone(out)
    /\ IsSome(rfut.request.bodies)
    /\ \E handled \in {on_range_body_result(
                            [rfut EXCEPT !.request.bodies = None, !.client = <<>>], res)} :
          \E t \in {take_blocks(handled)} :
              /\ rfut' = t.fut
              /\ out' = t.ret
    /\ UNCHANGED fut

\* the caller drops the FetchFullBlockRangeFuture: its FullBlockRangeRequest
\* and the sub-request futures it owns are dropped with it
drop_range_future(f) ==
    [f EXCEPT !.request = [headers |-> None, bodies |-> None], !.client = <<>>]

(***************************************************************************)
(* Specifications                                                          *)
(***************************************************************************)
NoFuture == [hash |-> 0]
NoLast == [slot |-> "None"]

IsSingle == fut # NoFuture
IsRange == rfut # NoFuture

\* get_full_block(hash) for the hash of any block of the chain
InitSingle ==
    /\ \E i \in 0..(ChainLen - 1) : fut = get_full_block(HashOf(Chain(i)))
    /\ rfut = NoFuture
    /\ out = None
    /\ last = NoLast
    /\ faults = MaxFaults

\* get_full_block_range(hash of the tip, count)
InitRange ==
    /\ \E count \in 1..MaxCount : rfut = get_full_block_range(HashOf(Tip), count)
    /\ fut = NoFuture
    /\ out = None
    /\ last = NoLast
    /\ faults = MaxFaults

Init == InitSingle \/ InitRange

\* on_headers_response reads headers_falling[0] once the length check has
\* passed: the read is out of bounds when the list is empty
index_out_of_bounds(f, headers_falling) ==
    Len(headers_falling) = f.count /\ Len(headers_falling) = 0

\* the sealed headers of a header-range result and the outcomes of their sort
SortOutcomes(res) ==
    IF res.ok THEN SortUnstableFalling([i \in 1..Len(res.data) |-> seal_slow(res.data[i])])
    ELSE {<<>>}

\* the record of the handled result
Handled(slot, res) == [slot |-> slot, res |-> res]

HeaderReady ==
    /\ IsSingle /\ IsNone(out) /\ IsSome(fut.request.header)
    /\ \E res \in HeaderResults :
          PollHeader(res) /\ last' = Handled("Header", res) /\ UNCHANGED faults
BodyReady ==
    /\ IsSingle /\ IsNone(out) /\ IsSome(fut.request.body)
    /\ \E res \in BodyResults :
          PollBody(res) /\ last' = Handled("Body", res) /\ UNCHANGED faults
RangeHeadersReady ==
    /\ IsRange /\ IsNone(out) /\ IsSome(rfut.request.headers)
    /\ \E res \in RangeHeaderResults : \E hf \in SortOutcomes(res) :
          /\ ~(res.ok /\ index_out_of_bounds(rfut, hf))
          /\ PollRangeHeaders(res, hf)
          /\ last' = Handled("Header", Observed(rfut, res, hf))
          /\ UNCHANGED faults
RangeBodiesReady ==
    /\ IsRange /\ IsNone(out) /\ IsSome(rfut.request.bodies)
    /\ \E res \in RangeBodyResults :
          PollRangeBodies(res) /\ last' = Handled("Body", res) /\ UNCHANGED faults

\* the caller drops the operation between two polls
Dropped == [slot |-> "Drop"]

DropSingle ==
    /\ IsSingle /\ last # Dropped
    /\ fut' = drop_future(fut)
    /\ last' = Dropped
    /\ UNCHANGED <<rfut, out, faults>>
DropRange ==
    /\ IsRange /\ last # Dropped
    /\ rfut' = drop_range_future(rfut)
    /\ last' = Dropped
    /\ UNCHANGED <<fut, out, faults>>

Next ==
    \/ HeaderReady \/ BodyReady \/ RangeHeadersReady \/ RangeBodiesReady
    \/ DropSingle \/ DropRange

Spec == Init /\ [][Next]_vars

(***************************************************************************)
(* The range fetcher for every count get_full_block_range accepts: count    *)
(* is a u64 the facade passes on unchecked, 0 included.  A poll that reads   *)
(* out of bounds panics; unwinding drops the future.                        *)
(***************************************************************************)
Panicked == [slot |-> "Panic"]

InitAnyCount ==
    /\ \E count \in 0..MaxCount : rfut = get_full_block_range(HashOf(Tip), count)
    /\ fut = NoFuture
    /\ out = None
    /\ last = NoLast
    /\ faults = MaxFaults

RangeHeadersPanic ==
    /\ IsRange /\ IsNone(out) /\ IsSome(rfut.request.headers)
    /\ \E res \in RangeHeaderResults : \E hf \in SortOutcomes(res) :
          /\ res.ok /\ index_out_of_bounds(rfut, hf)
          /\ rfut' = drop_range_future(rfut)
          /\ last' = Panicked
          /\ UNCHANGED <<fut, out, faults>>

AnyCountDropRange == last # Panicked /\ DropRange

AnyCountNext ==
    RangeHeadersReady \/ RangeBodiesReady \/ RangeHeadersPanic \/ AnyCountDropRange

AnyCountSpec == InitAnyCount /\ [][AnyCountNext]_vars

(***************************************************************************)
(* A PeerClient that returns bodies in the order of the requested hashes,   *)
(* all of them or only the first ones (the soft limit of a response).       *)
(***************************************************************************)
OrderedRangeBodyResults(f) ==
    LET hashes == Unwrap(f.request.bodies).hashes
    IN  {Ok(p, [i \in 1..n |-> [root |-> HeaderByHash(hashes[i]).root, src |-> p]]) :
            p \in Peers, n \in 1..Len(hashes)}

OrderedRangeBodiesReady ==
    /\ IsRange /\ IsNone(out) /\ IsSome(rfut.request.bodies)
    /\ \E res \in OrderedRangeBodyResults(rfut) :
          PollRangeBodies(res) /\ last' = Handled("Body", res) /\ UNCHANGED faults

OrderedNext == HeaderReady \/ BodyReady \/ RangeHeadersReady \/ OrderedRangeBodiesReady

OrderedSpec == Init /\ [][OrderedNext]_vars

(***************************************************************************)
(* Liveness: every outstanding sub-request is eventually answered by an     *)
(* honest peer, and the peers give at most MaxFaults other replies.         *)
(***************************************************************************)
LiveHeaderReady ==
    /\ IsSingle /\ IsNone(out) /\ IsSome(fut.request.header)
    /\ \E res \in GoodHeaderResults(fut) : PollHeader(res)
    /\ UNCHANGED <<last, faults>>
LiveBodyReady ==
    /\ IsSingle /\ IsNone(out) /\ IsSome(fut.request.body)
    /\ \E res \in GoodBodyResults(fut) : PollBody(res)
    /\ UNCHANGED <<last, faults>>
LiveRangeHeadersReady ==
    /\ IsRange /\ IsNone(out) /\ IsSome(rfut.request.headers)
    /\ \E res \in GoodRangeHeaderResults(rfut) : \E hf \in SortOutcomes(res) :
          PollRangeHeaders(res, hf)
    /\ UNCHANGED <<last, faults>>
LiveRangeBodiesReady ==
    /\ IsRange /\ IsNone(out) /\ IsSome(rfut.request.bodies)
    /\ \E res \in GoodRangeBodyResults(rfut) : PollRangeBodies(res)
    /\ UNCHANGED <<last, faults>>

\* one of the other replies: it uses up a fault
FaultyHeaderReady ==
    /\ IsSingle /\ IsNone(out) /\ IsSome(fut.request.header) /\ faults > 0
    /\ \E res \in HeaderResults \ GoodHeaderResults(fut) : PollHeader(res)
    /\ faults' = faults - 1
    /\ UNCHANGED last
FaultyBodyReady ==
    /\ IsSingle /\ IsNone(out) /\ IsSome(fut.request.body) /\ faults > 0
    /\ \E res \in BodyResults \ GoodBodyResults(fut) : PollBody(res)
    /\ faults' = faults - 1
    /\ UNCHANGED last
FaultyRangeHeadersReady ==
    /\ IsRange /\ IsNone(out) /\ IsSome(rfut.request.headers) /\ faults > 0
    /\ \E res \in RangeHeaderResults \ GoodRangeHeaderResults(rfut) :
          \E hf \in SortOutcomes(res) : PollRangeHeaders(res, hf)
    /\ faults' = faults - 1
    /\ UNCHANGED last
FaultyRangeBodiesReady ==
    /\ IsRange /\ IsNone(out) /\ IsSome(rfut.request.bodies) /\ faults > 0
    /\ \E res \in RangeBodyResults \ GoodRangeBodyResults(rfut) : PollRangeBodies(res)
    /\ faults' = faults - 1
    /\ UNCHANGED last

LiveNext ==
    \/ LiveHeaderReady \/ LiveBodyReady \/ LiveRangeHeadersReady \/ LiveRangeBodiesReady
    \/ FaultyHeaderReady \/ FaultyBodyReady
    \/ FaultyRangeHeadersReady \/ FaultyRangeBodiesReady

LiveSpec ==
    /\ Init
    /\ [][LiveNext]_vars
    /\ WF_vars(LiveHeaderReady)
    /\ WF_vars(LiveBodyReady)
    /\ WF_vars(LiveRangeHeadersReady)
    /\ WF_vars(LiveRangeBodiesReady)

(***************************************************************************)
(* Properties                                                              *)
(***************************************************************************)
\* the report_bad_message calls among the calls of a step, in order
Reports(client) == SelectSeq(client, LAMBDA c : c.op = "report_bad_message")

\* C1: single-block identity.  A header stored in the header slot, and the
\* header of the block the future resolves with, hash to the requested hash.
C1_SingleIdentity ==
    IsSingle =>
        /\ IsSome(fut.header) =>
              /\ HashOf(Unwrap(fut.header).header) = fut.hash
              /\ Unwrap(fut.header).seal = fut.hash
        /\ IsSome(out) =>
              /\ HashOf(Unwrap(out).header.header) = fut.hash
              /\ Unwrap(out).header.seal = fut.hash

\* the single-block future resolved right after a header reply
C1_Witness == IsSingle /\ IsSome(out) /\ last.slot = "Header"

\* C2: range length and start.  A resolved range has exactly count blocks
\* and its first block hashes to the start hash.
C2_RangeLengthAndStart ==
    (IsRange /\ IsSome(out)) =>
        /\ Len(Unwrap(out)) = rfut.count
        /\ HashOf(Unwrap(out)[1].header.header) = rfut.start_hash

\* a range of more than one block resolved
C2_Witness == IsRange /\ IsSome(out) /\ rfut.count > 1

\* C3: range ordering.  In a resolved range the number of block i+1 is the
\* number of block i minus one.
C3_RangeDescending ==
    (IsRange /\ IsSome(out)) =>
        \A i \in 1..(Len(Unwrap(out)) - 1) :
            Unwrap(out)[i + 1].header.header.number
                = Unwrap(out)[i].header.header.number - 1

\* a resolved range with at least two blocks, the first being the tip
C3_Witness ==
    /\ IsRange /\ IsSome(out) /\ Len(Unwrap(out)) >= 2
    /\ Unwrap(out)[1].header.header.number = Tip.number

C5_SingleResolves == IsSingle ~> (IsSingle /\ IsSome(out))

\* the single-block future resolved after the peers used up all their faults
C5_Witness == IsSingle /\ IsSome(out) /\ faults = 0

\* C6: range liveness.  When every outstanding sub-request is eventually
\* answered and the peers give only finitely many replies other than the
\* correct headers and bodies, get_full_block_range resolves.
C6_RangeResolves == IsRange ~> (IsRange /\ IsSome(out))

\* the peers of the report_bad_message calls of a step, in order
ReportedPeers(client) == [i \in 1..Len(Reports(client)) |-> Reports(client)[i].peer]

\* the step handled a header reply carrying a header
GotHeader == last'.slot = "Header" /\ last'.res.ok /\ IsSome(last'.res.data)

\* the step handled a body reply carrying a body
GotBody == last'.slot = "Body" /\ last'.res.ok /\ IsSome(last'.res.data)

\* the body waits in the body slot as PendingValidation and does not match
\* the header that arrives
PendingBodyRejectedBy(h) ==
    /\ IsSome(fut.body)
    /\ Unwrap(fut.body).tag = "PendingValidation"
    /\ ~validate_block(seal_slow(h), Unwrap(fut.body).resp.data)

\* C7: single-block peer reporting.  A header reply whose hash differs from
\* the requested one, a body reply invalid against the stored header, and a
\* pending body found invalid when the header arrives each produce exactly
\* one report_bad_message, with the peer of that reply, followed by the
\* request that replaces it.
C7_SingleReports ==
    [][IsSingle =>
        /\ (GotHeader /\ HashOf(Unwrap(last'.res.data)) # fut.hash) =>
              fut'.client = <<ReportBadMessage(last'.res.peer), GetHeader(fut.hash)>>
        /\ (GotBody /\ IsSome(fut.header)
                /\ ~validate_block(Unwrap(fut.header), Unwrap(last'.res.data))) =>
              fut'.client = <<ReportBadMessage(last'.res.peer), GetBlockBody(fut.hash)>>
        /\ (GotHeader /\ HashOf(Unwrap(last'.res.data)) = fut.hash
                /\ PendingBodyRejectedBy(Unwrap(last'.res.data))) =>
              fut'.client = <<ReportBadMessage(Unwrap(fut.body).resp.data.src),
                              GetBlockBody(fut.hash)>>
      ]_vars

\* the arrival of the header rejected a body that waited for it: the peer of
\* the body was reported and the body requested again
C7_Witness ==
    /\ IsSingle /\ last.slot = "Header" /\ IsSome(fut.header)
    /\ Len(Reports(fut.client)) = 1
    /\ IsSome(fut.request.body)

\* C8: range peer reporting is per response.  A body-range reply that fills
\* an empty bodies map causes at most one report_bad_message, however many
\* of its bodies fail validation at assembly.
C8_OneReportPerReply ==
    [][(IsRange /\ DOMAIN rfut.bodies = {} /\ last'.slot = "Body" /\ last'.res.ok) =>
          Len(Reports(rfut'.client)) <= 1
      ]_vars

\* C9: a header-range reply of the wrong length is reported, leaves the
\* headers unset and is requested again.
C9_LengthMismatchReported ==
    (IsRange /\ last.slot = "Header" /\ last.res.ok /\ last.res.len # rfut.count) =>
        /\ ReportBadMessage(last.res.peer) \in Range(rfut.client)
        /\ IsNone(rfut.headers)
        /\ IsSome(rfut.request.headers)

\* the body the range fetcher paired with header h: the one already in the
\* bodies map, else the one at the position of h among the pending headers
PairedBody(h) ==
    IF h \in DOMAIN rfut.bodies
    THEN IF rfut.bodies[h].tag = "Validated"
         THEN rfut.bodies[h].body
         ELSE rfut.bodies[h].resp.data
    ELSE last'.res.data[CHOOSE i \in 1..Len(rfut.pending_headers) :
                            rfut.pending_headers[i] = h]

\* the peers the single-block fetcher has to report in a step
SingleRejectedPeers ==
    IF GotHeader
    THEN IF HashOf(Unwrap(last'.res.data)) # fut.hash
         THEN <<last'.res.peer>>
         ELSE IF PendingBodyRejectedBy(Unwrap(last'.res.data))
              THEN <<Unwrap(fut.body).resp.data.src>>
              ELSE <<>>
    ELSE IF GotBody /\ IsSome(fut.header)
                /\ ~validate_block(Unwrap(fut.header), Unwrap(last'.res.data))
         THEN <<Unwrap(last'.res.data).src>>
         ELSE <<>>

\* C10: peer attribution.  Every report_bad_message of a step carries the
\* peer of the reply that delivered the rejected header or body, also when
\* the body was delivered by an earlier reply than the one handled.
C10_Attribution ==
    [][/\ IsSingle => ReportedPeers(fut'.client) = SingleRejectedPeers
       /\ (IsRange /\ last'.slot = "Header") =>
              \A i \in 1..Len(Reports(rfut'.client)) :
                  last'.res.ok /\ Reports(rfut'.client)[i].peer = last'.res.peer
       /\ (IsRange /\ last'.slot = "Body" /\ Reports(rfut'.client) # <<>>) =>
              ReportedPeers(rfut'.client) =
                  [i \in 1..Len(rfut'.pending_headers) |->
                      PairedBody(rfut'.pending_headers[i]).src]
      ]_vars

\* at assembly the range fetcher reported a peer other than the one whose
\* reply was just handled
C10_Witness ==
    /\ IsRange /\ last.slot = "Body" /\ last.res.ok
    /\ \E i \in 1..Len(Reports(rfut.client)) :
          Reports(rfut.client)[i].peer # last.res.peer

\* C11: range report-before-retry ordering.  No report_bad_message of a step
\* follows a get_block_bodies call of that step, and while a body-range
\* request is outstanding no delivered body that fails validation against
\* its header is still waiting unreported in the bodies map.
C11_ReportBeforeRetry ==
    IsRange =>
        /\ \A i, j \in 1..Len(rfut.client) :
              i < j => ~(/\ rfut.client[i].op = "get_block_bodies"
                         /\ rfut.client[j].op = "report_bad_message")
        /\ IsSome(rfut.request.bodies) =>
              \A h \in DOMAIN rfut.bodies :
                  rfut.bodies[h].tag = "PendingValidation" =>
                      validate_block(h, rfut.bodies[h].resp.data)

\* a transport error or an empty payload
Unavailable(res) == ~res.ok \/ IsNone(res.data)

\* C12: no report for unavailability.  In the single-block fetcher a header
\* or body reply that is a transport error or an empty payload makes exactly
\* one call, the request of that slot again, and changes nothing else: no
\* report, the slot stays empty, the other slot and its request are kept.
C12_NoReportForUnavailable ==
    [][IsSingle =>
        /\ (last'.slot = "Header" /\ Unavailable(last'.res)) =>
              /\ fut' = [fut EXCEPT !.client = <<GetHeader(fut.hash)>>]
              /\ IsNone(fut'.header) /\ IsSome(fut'.request.header)
              /\ IsNone(out')
        /\ (last'.slot = "Body" /\ Unavailable(last'.res)) =>
              /\ fut' = [fut EXCEPT !.client = <<GetBlockBody(fut.hash)>>]
              /\ IsNone(fut'.body) /\ IsSome(fut'.request.body)
              /\ IsNone(out')
      ]_vars

\* an empty header payload was handled while a body waits for the header
C12_Witness ==
    /\ IsSingle /\ last.slot = "Header" /\ last.res.ok /\ IsNone(last.res.data)
    /\ IsSome(fut.body)
    /\ fut.client = <<GetHeader(fut.hash)>>

\* C13: cancel safety.  The drop of an operation makes no call and leaves no
\* sub-request outstanding, and a dropped operation takes no further step:
\* no request, no report, no result.
C13_CancelSafe ==
    [][/\ last' = Dropped =>
              /\ IsSingle => /\ fut'.client = <<>>
                              /\ IsNone(fut'.request.header) /\ IsNone(fut'.request.body)
              /\ IsRange => /\ rfut'.client = <<>>
                             /\ IsNone(rfut'.request.headers) /\ IsNone(rfut'.request.bodies)
       /\ last = Dropped => UNCHANGED <<fut, rfut, out>>
      ]_vars

\* a range operation dropped after headers were accepted and some bodies stored
C13_Witness ==
    /\ IsRange /\ last = Dropped /\ IsNone(out)
    /\ IsSome(rfut.headers) /\ DOMAIN rfut.bodies # {}

\* C14: backpressure.  Each operation holds at most one outstanding header
\* sub-request and at most one outstanding body sub-request, so at most two.
C14_Backpressure ==
    /\ IsSingle =>
          /\ Len(fut.request.header) <= 1 /\ Len(fut.request.body) <= 1
          /\ Len(fut.request.header) + Len(fut.request.body) <= 2
    /\ IsRange =>
          /\ Len(rfut.request.headers) <= 1 /\ Len(rfut.request.bodies) <= 1
          /\ Len(rfut.request.headers) + Len(rfut.request.bodies) <= 2

\* one step of the range fetcher called get_block_bodies twice and one
\* request is outstanding
C14_Witness ==
    /\ IsRange /\ IsSome(rfut.request.bodies)
    /\ Len(SelectSeq(rfut.client, LAMBDA c : c.op = "get_block_bodies")) = 2

\* C15 as stated: positional pairing round trips.  With a PeerClient that
\* returns bodies in the order of the requested hashes, the first body-range
\* reply handled after the headers were accepted resolves the range.
C15_OneBodyRoundTrip ==
    [][(IsRange /\ last'.slot = "Body") => IsSome(out')]_vars

\* C15 as amended: a body-range reply that carries, in the order of the
\* requested hashes, the bodies of all of them resolves the range in that
\* step without a further call.
C15_CompleteReplyResolves ==
    [][(/\ IsRange /\ last'.slot = "Body"
        /\ Len(last'.res.data) = Len(Unwrap(rfut.request.bodies).hashes)) =>
            /\ IsSome(out')
            /\ rfut'.client = <<>>
      ]_vars

\* a range of several blocks resolved by one body-range reply for all of them
C15_Witness ==
    /\ IsRange /\ IsSome(out) /\ rfut.count >= 2
    /\ last.slot = "Body" /\ Len(last.res.data) = rfut.count

\* the header of the requested block, sealed
ExpectedHeader == seal_slow(HeaderByHash(fut.hash))

\* the single-block future after the matching header arrived first
HeaderStored ==
    [get_full_block(fut.hash) EXCEPT
        !.header = Some(ExpectedHeader), !.request.header = None, !.client = <<>>]

\* the single-block future after the body arrived first
BodyWaiting(peer, body) ==
    [get_full_block(fut.hash) EXCEPT
        !.body = Some(PendingValidation(WithPeerId(peer, body))),
        !.request.body = None, !.client = <<>>]

\* the single-block future after it resolved without a further call
ResolvedSingle ==
    [get_full_block(fut.hash) EXCEPT
        !.request = [header |-> None, body |-> None], !.client = <<>>]

\* the step handled the matching header / a valid body
GoodHeaderReply == last'.slot = "Header" /\ last'.res \in GoodHeaderResults(fut)
GoodBodyReply == last'.slot = "Body" /\ last'.res \in GoodBodyResults(fut)

\* C16: arrival-order independence of the single-block fetcher.  From the
\* state get_full_block creates, the matching header and a valid body in
\* either order resolve the future with exactly that header and body; the
\* reply that comes first is stored (the body as PendingValidation), and
\* neither step makes a call: one header request, one body request, no report.
C16_ArrivalOrder ==
    [][IsSingle =>
        /\ (fut = get_full_block(fut.hash) /\ GoodHeaderReply) =>
              fut' = HeaderStored /\ IsNone(out')
        /\ (fut = get_full_block(fut.hash) /\ GoodBodyReply) =>
              /\ fut' = BodyWaiting(last'.res.peer, Unwrap(last'.res.data))
              /\ IsNone(out')
        /\ (fut = HeaderStored /\ GoodBodyReply) =>
              /\ fut' = ResolvedSingle
              /\ out' = Some(build_sealed_block(ExpectedHeader, Unwrap(last'.res.data)))
        /\ ((\E res \in GoodBodyResults(fut) :
                  fut = BodyWaiting(res.peer, Unwrap(res.data))) /\ GoodHeaderReply) =>
              /\ fut' = ResolvedSingle
              /\ out' = Some(build_sealed_block(ExpectedHeader,
                                                Unwrap(fut.body).resp.data))
      ]_vars

\* the body came first and the arrival of the header resolved the future
\* without any call
C16_Witness ==
    /\ IsSingle /\ last.slot = "Header" /\ last.res \in GoodHeaderResults(fut)
    /\ fut = ResolvedSingle
    /\ \E res \in GoodBodyResults(fut) :
          out = Some(build_sealed_block(ExpectedHeader, Unwrap(res.data)))

\* C17: single-block slot invariant.  While the operation is pending, an
\* empty header slot has a header sub-request outstanding and an empty body
\* slot has a body sub-request outstanding.
C17_SlotInvariant ==
    (IsSingle /\ IsNone(out) /\ last # Dropped) =>
        /\ IsNone(fut.header) => IsSome(fut.request.header)
        /\ IsNone(fut.body) => IsSome(fut.request.body)

\* the header is stored, the body reply was a transport error and the body
\* is requested again
C17_Witness ==
    /\ IsSingle /\ IsNone(out) /\ last.slot = "Body" /\ ~last.res.ok
    /\ IsSome(fut.header) /\ IsNone(fut.body) /\ IsSome(fut.request.body)

\* the calls of a step with the given name, in order
Calls(client, op) == SelectSeq(client, LAMBDA c : c.op = op)

\* the step accepted the header and the body that waited for it fails validation
DeferredFailure ==
    /\ GotHeader
    /\ HashOf(Unwrap(last'.res.data)) = fut.hash
    /\ PendingBodyRejectedBy(Unwrap(last'.res.data))

\* C18: single-block retries are per slot.  A step that handles a header
\* reply leaves the body slot and the body sub-request alone and requests no
\* body; a step that handles a body reply leaves the header slot and the
\* header sub-request alone and requests no header; the one exception is a
\* waiting body found invalid when its header is accepted: the header stays
\* stored and only the body is requested again.
C18_PerSlotRetry ==
    [][IsSingle =>
        /\ (last'.slot = "Header" /\ ~DeferredFailure) =>
              /\ Calls(fut'.client, "get_block_body") = <<>>
              /\ fut'.request.body = fut.request.body
              /\ IsNone(out') => fut'.body = fut.body
        /\ DeferredFailure =>
              /\ fut'.header = Some(seal_slow(Unwrap(last'.res.data)))
              /\ IsNone(fut'.request.header)
              /\ Calls(fut'.client, "get_header") = <<>>
              /\ IsNone(fut'.body)
              /\ fut'.request.body = Some(GetBlockBody(fut.hash))
              /\ Calls(fut'.client, "get_block_body") = <<GetBlockBody(fut.hash)>>
        /\ last'.slot = "Body" =>
              /\ Calls(fut'.client, "get_header") = <<>>
              /\ fut'.request.header = fut.request.header
              /\ IsNone(out') => fut'.header = fut.header
      ]_vars

\* a header reply was rejected and requested again while a body waits
C18_Witness ==
    /\ IsSingle /\ last.slot = "Header" /\ Len(Reports(fut.client)) = 1
    /\ IsNone(fut.header) /\ IsSome(fut.body)
    /\ IsSome(fut.request.header) /\ IsNone(fut.request.body)

\* the hashes of a list of sealed headers, in its order
HashesOf(headers) == [i \in 1..Len(headers) |-> headers[i].seal]

\* C19: range request ordering.  get_full_block_range issues only the
\* header-range request (start_hash, count, Falling); while no header-range
\* reply has been accepted no get_block_bodies call is made and no body
\* request is outstanding; the step that accepts the headers calls
\* get_block_bodies exactly once, with the hashes of the accepted headers in
\* their falling order.
C19_RequestOrdering ==
    /\ [](IsRange =>
            /\ last = NoLast =>
                  /\ rfut.client = <<GetHeaders(rfut.start_hash, rfut.count)>>
                  /\ rfut.client[1].direction = "Falling"
                  /\ rfut.request.headers = Some(GetHeaders(rfut.start_hash, rfut.count))
            /\ (IsNone(rfut.headers) /\ IsNone(out)) =>
                  /\ Calls(rfut.client, "get_block_bodies") = <<>>
                  /\ IsNone(rfut.request.bodies))
    /\ [][(IsRange /\ IsNone(rfut.headers) /\ IsSome(rfut'.headers)) =>
            LET accepted == Unwrap(rfut'.headers)
            IN  /\ Calls(rfut'.client, "get_block_bodies")
                      = <<GetBlockBodies(HashesOf(accepted))>>
                /\ rfut'.request.bodies = Some(GetBlockBodies(HashesOf(accepted)))
                /\ \A i \in 1..(Len(accepted) - 1) :
                      accepted[i].header.number >= accepted[i + 1].header.number
          ]_vars

\* a header-range reply of several headers was accepted and their bodies requested
C19_Witness ==
    /\ IsRange /\ last.slot = "Header" /\ rfut.count >= 2
    /\ IsSome(rfut.headers)
    /\ Len(Calls(rfut.client, "get_block_bodies")) = 1

\* C20: a header-range reply of the requested length whose first header
\* (after the sort) does not hash to start_hash, or whose headers fail
\* validate_header_range, changes nothing but the calls of the step: one
\* report of its peer, then the same header-range request again.
C20_RejectedHeaderRange ==
    [][(/\ IsRange /\ last'.slot = "Header" /\ last'.res.ok
        /\ last'.res.len = rfut.count
        /\ (~last'.res.starts \/ ~last'.res.linked)) =>
            /\ rfut' = [rfut EXCEPT !.client =
                            <<ReportBadMessage(last'.res.peer),
                              GetHeaders(rfut.start_hash, rfut.count)>>]
            /\ IsNone(rfut'.headers) /\ rfut'.pending_headers = <<>>
            /\ DOMAIN rfut'.bodies = {}
            /\ IsNone(rfut'.request.bodies)
            /\ IsNone(out')
      ]_vars

\* a reply that starts with the requested header was rejected by
\* validate_header_range
C20_Witness ==
    /\ IsRange /\ last.slot = "Header" /\ last.res.ok
    /\ last.res.len = rfut.count /\ last.res.starts /\ ~last.res.linked
    /\ rfut.client = <<ReportBadMessage(last.res.peer),
                        GetHeaders(rfut.start_hash, rfut.count)>>

\* the requested headers, sealed, from the start hash down
FallingSlice(f) == [i \in 1..f.count |-> seal_slow(Chain(ChainLen - i))]

\* C21: defensive header sort.  A header-range reply that holds the count
\* requested headers in any order is accepted without a report: the stored
\* headers, the pending headers and the hashes of the one body request are
\* the requested headers in falling block-number order, and so are the
\* headers of the blocks of the result.
C21_DefensiveSort ==
    /\ [][(IsRange /\ last'.slot = "Header" /\ last'.res.ok /\ last'.res.honest) =>
            /\ rfut'.headers = Some(FallingSlice(rfut))
            /\ rfut'.pending_headers = FallingSlice(rfut)
            /\ rfut'.request.bodies = Some(GetBlockBodies(HashesOf(FallingSlice(rfut))))
            /\ rfut'.client = <<GetBlockBodies(HashesOf(FallingSlice(rfut)))>>
          ]_vars
    /\ [](IsRange /\ IsSome(out) =>
            [i \in 1..Len(Unwrap(out)) |-> Unwrap(out)[i].header] = FallingSlice(rfut))

\* the requested headers came out of order and were accepted
C21_Witness ==
    /\ IsRange /\ last.slot = "Header" /\ last.res.ok
    /\ last.res.honest /\ ~last.res.in_order
    /\ rfut.headers = Some(FallingSlice(rfut))

\* C22: partial body replies.  A body-range reply with k bodies, 0 < k <
\* number of pending headers, stores body i as PendingValidation under the
\* i-th pending header, removes these k headers from the pending headers and
\* makes one call: get_block_bodies for the hashes of the headers still
\* pending, in order.
C22_PartialReply ==
    [][(/\ IsRange /\ last'.slot = "Body" /\ last'.res.ok
        /\ 0 < Len(last'.res.data)
        /\ Len(last'.res.data) < Len(rfut.pending_headers)) =>
            LET k == Len(last'.res.data)
                pend == rfut.pending_headers
                rest == SubSeq(pend, k + 1, Len(pend))
            IN  /\ rfut'.pending_headers = rest
                /\ DOMAIN rfut'.bodies = DOMAIN rfut.bodies \cup {pend[i] : i \in 1..k}
                /\ \A i \in 1..k :
                      rfut'.bodies[pend[i]]
                          = PendingValidation(WithPeerId(last'.res.peer, last'.res.data[i]))
                /\ \A h \in DOMAIN rfut.bodies : rfut'.bodies[h] = rfut.bodies[h]
                /\ rfut'.client = <<GetBlockBodies(HashesOf(rest))>>
                /\ rfut'.request.bodies = Some(GetBlockBodies(HashesOf(rest)))
                /\ rfut'.headers = rfut.headers
                /\ IsNone(out')
      ]_vars

\* one body of two arrived: it waits for validation and the other is requested
C22_Witness ==
    /\ IsRange /\ last.slot = "Body" /\ last.res.ok /\ Len(last.res.data) = 1
    /\ Len(rfut.pending_headers) >= 1
    /\ \E h \in DOMAIN rfut.bodies : rfut.bodies[h].tag = "PendingValidation"
    /\ rfut.client = <<GetBlockBodies(HashesOf(rfut.pending_headers))>>

\* C23: pending-set invariant.  Once the headers are accepted, the pending
\* headers are exactly the accepted headers that are not keys of the bodies
\* map, each once, and every key of the map is an accepted header.
C23_PendingSet ==
    (IsRange /\ IsSome(rfut.headers)) =>
        /\ Range(rfut.pending_headers) = Range(Unwrap(rfut.headers)) \ DOMAIN rfut.bodies
        /\ Range(rfut.pending_headers) \cap DOMAIN rfut.bodies = {}
        /\ DOMAIN rfut.bodies \subseteq Range(Unwrap(rfut.headers))
        /\ Cardinality(Range(rfut.pending_headers)) = Len(rfut.pending_headers)

\* after a retry of the assembly: a validated body is kept, a header is pending again
C23_Witness ==
    /\ IsRange /\ IsSome(rfut.headers) /\ rfut.pending_headers # <<>>
    /\ \E h \in DOMAIN rfut.bodies : rfut.bodies[h].tag = "Validated"

\* the assembly of this step rejects the body paired with header h
FailsAssembly(h) ==
    /\ h \in DOMAIN rfut.bodies => rfut.bodies[h].tag = "PendingValidation"
    /\ ~validate_block(h, PairedBody(h))

\* the step handled a body-range reply and its assembly rejected a body
AssemblyRetry == IsRange /\ last'.slot = "Body" /\ Reports(rfut'.client) # <<>>

\* C24: assembly retry preserves validated work.  When the assembly rejects a
\* body, the accepted headers are kept, every body that passed is in the
\* bodies map as Validated under its header, the rejected ones are not, and
\* the one get_block_bodies call carries the hashes of the headers of the
\* rejected bodies in falling order; a Validated body is never changed and
\* its hash never requested again.
C24_RetryKeepsValidated ==
    [][/\ AssemblyRetry =>
            LET headers == Unwrap(rfut.headers)
                failed == SelectSeq(headers, LAMBDA h : FailsAssembly(h))
            IN  /\ rfut'.headers = rfut.headers
                /\ \A h \in Range(headers) :
                      IF FailsAssembly(h)
                      THEN h \notin DOMAIN rfut'.bodies
                      ELSE /\ h \in DOMAIN rfut'.bodies
                           /\ rfut'.bodies[h] = Validated(PairedBody(h))
                /\ rfut'.pending_headers = failed
                /\ Calls(rfut'.client, "get_block_bodies")
                      = <<GetBlockBodies(HashesOf(failed))>>
                /\ rfut'.request.bodies = Some(GetBlockBodies(HashesOf(failed)))
       /\ (IsRange /\ IsNone(out')) =>
            \A h \in DOMAIN rfut.bodies :
                rfut.bodies[h].tag = "Validated" =>
                    /\ h \in DOMAIN rfut'.bodies
                    /\ rfut'.bodies[h] = rfut.bodies[h]
                    /\ \A i \in 1..Len(rfut'.client) :
                          rfut'.client[i].op = "get_block_bodies" =>
                              h.seal \notin Range(rfut'.client[i].hashes)
      ]_vars

\* an assembly kept a validated body and requested a rejected one again
C24_Witness ==
    /\ IsRange /\ last.slot = "Body" /\ Reports(rfut.client) # <<>>
    /\ rfut.pending_headers # <<>>
    /\ \E h \in DOMAIN rfut.bodies : rfut.bodies[h].tag = "Validated"
    /\ IsSome(rfut.request.bodies)

\* C25: a body-range transport error is retried.  When the body-range
\* sub-request yields an error while headers are still pending, the step
\* calls get_block_bodies for the hashes of the pending headers, whether the
\* bodies map is empty or partly filled.
C25_BodyErrorRetried ==
    [][(/\ IsRange /\ last'.slot = "Body" /\ ~last'.res.ok
        /\ rfut.pending_headers # <<>>) =>
            /\ rfut'.client = <<GetBlockBodies(HashesOf(rfut.pending_headers))>>
            /\ rfut'.request.bodies = Some(GetBlockBodies(HashesOf(rfut.pending_headers)))
      ]_vars

C27_HeaderErrorRetried ==
    [][(IsRange /\ last'.slot = "Header" /\ ~last'.res.ok) =>
            /\ rfut' = [rfut EXCEPT !.client = <<GetHeaders(rfut.start_hash, rfut.count)>>]
            /\ rfut'.client[1].direction = "Falling"
            /\ rfut'.request.headers = Some(GetHeaders(rfut.start_hash, rfut.count))
            /\ IsNone(rfut'.headers)
            /\ IsNone(out')
      ]_vars

\* the header-range request failed and was issued again
C27_Witness ==
    /\ IsRange /\ last.slot = "Header" /\ ~last.res.ok
    /\ rfut.client = <<GetHeaders(rfut.start_hash, rfut.count)>>
    /\ IsSome(rfut.request.headers)

\* C28: the handling of one body-range reply calls get_block_bodies at most
\* once, whatever the reply and the content of the bodies map.
C28_OneBodiesCallPerReply ==
    [][(IsRange /\ last'.slot = "Body") =>
            Len(Calls(rfut'.client, "get_block_bodies")) <= 1
      ]_vars

\* C29: an outstanding body-range request was issued with the hashes of the
\* pending headers in order, and the pending headers do not change until its
\* reply is handled.
C29_RequestMatchesPending ==
    /\ [](IsRange /\ IsSome(rfut.request.bodies) =>
            Unwrap(rfut.request.bodies).hashes = HashesOf(rfut.pending_headers))
    /\ [][(IsRange /\ IsSome(rfut.request.bodies) /\ last'.slot # "Body") =>
            rfut'.pending_headers = rfut.pending_headers
          ]_vars

\* a body-range request for several headers was issued by the handling of a
\* body-range reply
C29_Witness ==
    /\ IsRange /\ last.slot = "Body" /\ IsSome(rfut.request.bodies)
    /\ Len(Unwrap(rfut.request.bodies).hashes) >= 2

\* C30: the header-range request and a body-range request are never
\* outstanding together; once the headers are accepted no header-range
\* reply is handled and no header-range request issued any more, and the
\* stored headers stay the same until the operation resolves.
C30_HeadersAcceptedOnce ==
    /\ [](IsRange => ~(IsSome(rfut.request.headers) /\ IsSome(rfut.request.bodies)))
    /\ [][(IsRange /\ IsSome(rfut.headers)) =>
            /\ last'.slot # "Header"
            /\ Calls(rfut'.client, "get_headers") = <<>>
            /\ IsNone(rfut'.request.headers)
            /\ IsNone(out') => rfut'.headers = rfut.headers
          ]_vars

\* after the headers were accepted an empty body-range reply was handled
C30_Witness ==
    /\ IsRange /\ IsSome(rfut.headers) /\ last.slot = "Body"
    /\ last.res.ok /\ last.res.data = <<>>
    /\ IsNone(rfut.request.headers) /\ IsSome(rfut.request.bodies)

\* C31: in the single-block fetcher a filled slot has no outstanding request.
\* A stored header has no header request outstanding, stays the same while
\* the operation is pending and no get_header call is made any more; a
\* stored body, PendingValidation or Validated, has no body request
\* outstanding.
C31_FilledSlotNoRequest ==
    /\ [](IsSingle =>
            /\ IsSome(fut.header) => IsNone(fut.request.header)
            /\ IsSome(fut.body) => IsNone(fut.request.body))
    /\ [][(IsSingle /\ IsSome(fut.header)) =>
            /\ Calls(fut'.client, "get_header") = <<>>
            /\ IsNone(fut'.request.header)
            /\ IsNone(out') => fut'.header = fut.header
          ]_vars

\* with the header stored a body reply was rejected and the body requested again
C31_Witness ==
    /\ IsSingle /\ IsNone(out) /\ last.slot = "Body" /\ last.res.ok
    /\ IsSome(fut.header) /\ IsNone(fut.request.header)
    /\ fut.client = <<ReportBadMessage(last.res.peer), GetBlockBody(fut.hash)>>

\* the step handled a body-range reply with more bodies than headers were pending
OversizedReply ==
    /\ IsRange /\ last'.slot = "Body" /\ last'.res.ok
    /\ Len(last'.res.data) > Len(rfut.pending_headers)

\* C32: oversized body replies cannot overfill the range fetcher.  The
\* bodies map never holds more than count bodies, and once the headers are
\* accepted its size plus the number of pending headers is count; of a
\* reply with more bodies than pending headers only the first ones are
\* stored, and the reports of the step are those of the headers whose
\* paired body fails, none for the surplus.
C32_NoOverfill ==
    /\ [](IsRange =>
            /\ Cardinality(DOMAIN rfut.bodies) <= rfut.count
            /\ IsSome(rfut.headers) =>
                  Cardinality(DOMAIN rfut.bodies) + Len(rfut.pending_headers) = rfut.count)
    /\ [][OversizedReply =>
            LET headers == Unwrap(rfut.headers)
                failed == SelectSeq(headers, LAMBDA h : FailsAssembly(h))
            IN  /\ ReportedPeers(rfut'.client)
                      = [i \in 1..Len(failed) |-> PairedBody(failed[i]).src]
                /\ failed = <<>> =>
                      /\ IsSome(out')
                      /\ Unwrap(out') = [i \in 1..Len(headers) |->
                                            build_sealed_block(headers[i],
                                                               PairedBody(headers[i]))]
          ]_vars

\* a reply with more bodies than the range has blocks resolved the range
C32_Witness ==
    /\ IsRange /\ IsSome(out) /\ last.slot = "Body" /\ last.res.ok
    /\ Len(last.res.data) > rfut.count

\* C33: handling a header-range reply is total for every count the facade
\* accepts, count = 0 included: no poll of the range fetcher reads element
\* 0 of an empty header list.
C33_HeadersResponseTotal == IsRange => last # Panicked

====
